---------------------------- MODULE Spec2Model ----------------------------
(***************************************************************************)
(* Reverse-mode automatic differentiation on a shared tape (autograd.rs)   *)
(* and the optimizers that consume its derivatives (optimizer.rs).         *)
(*                                                                         *)
(* The numeric type T is modelled by the integers: +, - and * are exact.   *)
(* Tape positions are 0-based as in the source; TLA+ sequences are         *)
(* 1-based, so position i of a Vec is element i + 1 of the sequence.       *)
(***************************************************************************)
EXTENDS Integers, Sequences, FiniteSets, TLC

VARIABLES
    ops,        \* Tape::ops of every Tape instance: [Tapes -> Seq(Op)]
    epoch,      \* history: how many times Tape::reset ran on each tape
    vars,       \* the program's Reverse<T> variables: [Slots -> Reverse or NoValue]
    hist,       \* history of each variable: see Hist below
    derivs,     \* the Derivatives last returned by Reverse::derivatives, or NoDerivs
    last,       \* history: the last call, its arguments and what it returned
    panicked,   \* TRUE once a call has panicked (the program is aborted)
    sgd,        \* the SimpleGradientDescent instance
    adam,       \* the AdamW instance
    calls,      \* how many more calls the program makes
    prog        \* the program that runs, and where it stands in it

vars_all == <<ops, epoch, vars, hist, derivs, last, panicked, sgd, adam, calls, prog>>

---------------------------------------------------------------------------
(* Bounds of the model *)

MaxCalls == 4       \* the program of Spec makes at most this many calls
MaxOptCalls == 6    \* the program of SpecOpt makes at most this many calls
MaxIters == 3       \* the optimization loop of SpecLoop runs this many iterations
MaxAbs == 81        \* no call is made whose primal result is outside -MaxAbs..MaxAbs

Tapes == {"t1", "t2"}
Inputs == {"x", "y"}        \* the variables the program declares
Slots == Inputs \cup {"z"}   \* and the variable its expressions are assigned to
Primal == [x |-> 3, y |-> 2] \* the primal values the inputs are declared with

NoTape == "None"
NoValue == [value |-> 0, tape |-> "unset", index |-> 0]
LearningRates == {1}    \* learning rates given to the optimizers' constructors

---------------------------------------------------------------------------
(* Tape *)

\* struct Op
Op(left, right, dleft, dright) ==
    [left |-> left, right |-> right, dleft |-> dleft, dright |-> dright]

\* Tape::new
Tape_new == <<>>

\* A reset that clears nothing
Tape_reset_keeps(tp) == tp

\* Tape::reset
Tape_reset(tp) == <<>>

\* Tape::add_reset: the new tape and the position of the pushed leaf
add_reset(tp, v1) ==
    LET new_idx == Len(tp)
    IN  [ops |-> Append(tp, Op(new_idx, new_idx, v1, v1)), idx |-> new_idx]

\* Tape::add_op: the new tape and the position of the pushed node
add_op(tp, op) ==
    LET new_idx == Len(tp)
    IN  [ops |-> Append(tp, op), idx |-> new_idx]

\* Op::unary
Op_unary(left, dleft) == Op(left, left, dleft, 0)

\* Op::bin
Op_bin(left, dleft, right, dright) == Op(left, right, dleft, dright)

---------------------------------------------------------------------------
(* Reverse *)

Reverse(value, tape, index) == [value |-> value, tape |-> tape, index |-> index]

\* Reverse::auto
auto(v) == Reverse(v, NoTape, 0)

\* The elementary operations: what they evaluate to and their local derivatives
UnaryKinds == {"neg", "powi2"}
BinKinds == {"add", "sub", "mul"}

\* Neg for Reverse and Reverse::powi(2): eval and deriv closures
unary_eval(k, a) ==
    CASE k = "neg" -> -a
      [] k = "powi2" -> a * a

unary_deriv(k, a) ==
    CASE k = "neg" -> -1
      [] k = "powi2" -> 2 * a

\* Add / Sub / Mul for Reverse: eval, deriv_left and deriv_right closures
bin_eval(k, a, b) ==
    CASE k = "add" -> a + b
      [] k = "sub" -> a - b
      [] k = "mul" -> a * b

bin_deriv_left(k, a, b) ==
    CASE k = "add" -> 1
      [] k = "sub" -> 1
      [] k = "mul" -> b

bin_deriv_right(k, a, b) ==
    CASE k = "add" -> 1
      [] k = "sub" -> -1
      [] k = "mul" -> a

\* Reverse::reversible: the tapes after the call and the value it returns
reversible(o, v, tape) ==
    LET r == add_reset(o[tape], 0)
    IN  [ops |-> [o EXCEPT ![tape] = r.ops], ret |-> Reverse(v, tape, r.idx)]

\* A reset whose fresh leaf carries the partial 1 instead of T::zero()
reset_seeds_one(o, self) ==
    IF self.tape = NoTape
    THEN [ops |-> o, ret |-> self]
    ELSE LET r == add_reset(o[self.tape], 1)
         IN  [ops |-> [o EXCEPT ![self.tape] = r.ops],
              ret |-> [self EXCEPT !.index = r.idx]]

\* Reverse::reset: the tapes after the call and self after the call
reset(o, self) ==
    IF self.tape = NoTape
    THEN [ops |-> o, ret |-> self]
    ELSE LET r == add_reset(o[self.tape], 0)
         IN  [ops |-> [o EXCEPT ![self.tape] = r.ops],
              ret |-> [self EXCEPT !.index = r.idx]]

\* Reverse::unary_op
unary_op(o, self, k) ==
    LET value == unary_eval(k, self.value)
    IN  IF self.tape = NoTape
        THEN [ops |-> o, ret |-> Reverse(value, NoTape, 0)]
        ELSE LET r == add_op(o[self.tape],
                             Op_unary(self.index, unary_deriv(k, self.value)))
             IN  [ops |-> [o EXCEPT ![self.tape] = r.ops],
                  ret |-> Reverse(value, self.tape, r.idx)]

\* A bin_op whose constant-left case records the partial of the left operand
bin_op_wrong_side(o, self, other, k) ==
    LET value == bin_eval(k, self.value, other.value)
        dl == bin_deriv_left(k, self.value, other.value)
        dr == bin_deriv_right(k, self.value, other.value)
    IN  CASE self.tape = NoTape /\ other.tape = NoTape ->
               [ops |-> o, ret |-> Reverse(value, NoTape, 0)]
          [] self.tape # NoTape /\ other.tape = NoTape ->
               LET r == add_op(o[self.tape], Op_unary(self.index, dl))
               IN  [ops |-> [o EXCEPT ![self.tape] = r.ops],
                    ret |-> Reverse(value, self.tape, r.idx)]
          [] self.tape = NoTape /\ other.tape # NoTape ->
               LET r == add_op(o[other.tape], Op_unary(other.index, dl))
               IN  [ops |-> [o EXCEPT ![other.tape] = r.ops],
                    ret |-> Reverse(value, other.tape, r.idx)]
          [] self.tape # NoTape /\ other.tape # NoTape ->
               LET r == add_op(o[self.tape],
                               Op_bin(self.index, dl, other.index, dr))
               IN  [ops |-> [o EXCEPT ![self.tape] = r.ops],
                    ret |-> Reverse(value, self.tape, r.idx)]

\* Reverse::bin_op
bin_op(o, self, other, k) ==
    LET value == bin_eval(k, self.value, other.value)
        dl == bin_deriv_left(k, self.value, other.value)
        dr == bin_deriv_right(k, self.value, other.value)
    IN  CASE self.tape = NoTape /\ other.tape = NoTape ->
               [ops |-> o, ret |-> Reverse(value, NoTape, 0)]
          [] self.tape # NoTape /\ other.tape = NoTape ->
               LET r == add_op(o[self.tape], Op_unary(self.index, dl))
               IN  [ops |-> [o EXCEPT ![self.tape] = r.ops],
                    ret |-> Reverse(value, self.tape, r.idx)]
          [] self.tape = NoTape /\ other.tape # NoTape ->
               LET r == add_op(o[other.tape], Op_unary(other.index, dr))
               IN  [ops |-> [o EXCEPT ![other.tape] = r.ops],
                    ret |-> Reverse(value, other.tape, r.idx)]
          [] self.tape # NoTape /\ other.tape # NoTape ->
               LET r == add_op(o[self.tape],
                               Op_bin(self.index, dl, other.index, dr))
               IN  [ops |-> [o EXCEPT ![self.tape] = r.ops],
                    ret |-> Reverse(value, self.tape, r.idx)]

---------------------------------------------------------------------------
(* Reverse::derivatives and Index for Derivatives *)

\* A result that is either a value or a panic (an index out of range)
Ok(v) == [panic |-> FALSE, val |-> v]
Panicked(v) == [panic |-> TRUE, val |-> v]

\* vec![T::zero(); n]
ZeroVec(n) == [i \in 1..n |-> 0]

\* One iteration of the loop of Reverse::derivatives at position idx: the
\* vector after both updates; a panic when a parent position is out of range.
scan_step(tp, d, idx) ==
    LET op == tp[idx + 1]
    IN  IF op.left >= Len(d)
        THEN Panicked(d)
        ELSE LET d1 == [d EXCEPT ![op.left + 1] = @ + d[idx + 1] * op.dleft]
             IN  IF op.right >= Len(d1)
                 THEN Panicked(d1)
                 ELSE Ok([d1 EXCEPT ![op.right + 1] = @ + d1[idx + 1] * op.dright])

\* The scan with the positions visited in ascending order (0..ops.len()
\* without .rev()): the n highest positions are still to be visited
RECURSIVE scan_ascending(_, _, _)
scan_ascending(tp, d, n) ==
    IF n = 0 THEN Ok(d)
    ELSE LET r == scan_step(tp, d, Len(tp) - n)
         IN  IF r.panic THEN r ELSE scan_ascending(tp, r.val, n - 1)

\* for idx in (0..ops.len()).rev(): the n lowest positions are still to be visited
RECURSIVE scan(_, _, _)
scan(tp, d, n) ==
    IF n = 0 THEN Ok(d)
    ELSE LET r == scan_step(tp, d, n - 1)
         IN  IF r.panic THEN r ELSE scan(tp, r.val, n - 1)

\* Reverse::derivatives
derivatives(o, self) ==
    IF self.tape = NoTape THEN Ok(<<>>)
    ELSE LET tp == o[self.tape]
         IN  IF self.index >= Len(tp)
             THEN Panicked(ZeroVec(Len(tp)))
             ELSE scan(tp, [ZeroVec(Len(tp)) EXCEPT ![self.index + 1] = 1], Len(tp))

\* Index<Reverse<T>> for Derivatives
index(dv, v) ==
    IF v.index >= Len(dv) THEN Panicked(0) ELSE Ok(dv[v.index + 1])

---------------------------------------------------------------------------
(* SimpleGradientDescent *)

\* SimpleGradientDescent::new
SimpleGradientDescent_new(learning_rate) == [learning_rate |-> learning_rate]

\* The update that stores a constant: *p = Reverse::auto(p.value - ...)
sgd_update_constant(o, opt, dv, p) ==
    LET g == index(dv, p)
    IN  IF g.panic
        THEN [panic |-> TRUE, ops |-> o, ret |-> p, read |-> p.index]
        ELSE [panic |-> FALSE, ops |-> o, read |-> p.index,
              ret |-> auto(p.value - g.val * opt.learning_rate)]

\* The body of the loop of SimpleGradientDescent::step for one parameter p:
\* the tapes and p after the assignment, or a panic of derivatives[p];
\* read is the position derivatives[p] reads.
sgd_update(o, opt, dv, p) ==
    LET g == index(dv, p)
    IN  IF g.panic
        THEN [panic |-> TRUE, ops |-> o, ret |-> p, read |-> p.index]
        ELSE LET r == bin_op(o, p, auto(g.val * opt.learning_rate), "sub")
             IN  [panic |-> FALSE, ops |-> r.ops, ret |-> r.ret, read |-> p.index]

\* SimpleGradientDescent::step over params (a sequence of variables), from
\* the i-th on: the tapes and the variables when it returns or panics, and
\* the positions of the derivative vector it read, in order.
RECURSIVE sgd_step(_, _, _, _, _, _)
sgd_step(o, vs, opt, dv, params, i) ==
    IF i > Len(params) THEN [panic |-> FALSE, ops |-> o, vars |-> vs, read |-> <<>>]
    ELSE LET r == sgd_update(o, opt, dv, vs[params[i]])
         IN  IF r.panic
             THEN [panic |-> TRUE, ops |-> o, vars |-> vs, read |-> <<r.read>>]
             ELSE LET rest == sgd_step(r.ops, [vs EXCEPT ![params[i]] = r.ret],
                                       opt, dv, params, i + 1)
                  IN  [rest EXCEPT !.read = <<r.read>> \o @]

---------------------------------------------------------------------------
(* AdamW *)

(* AdamW needs T: Real.  Its fractional quantities (the hyperparameters,   *)
(* the moments and their bias-corrected values) are kept in fixed point,   *)
(* Q units to 1, rounded down; a fixed-point number that is stored in a    *)
(* Reverse<T> is rounded to the nearest integer.                           *)
Q == 1000
ToFixed(v) == v * Q
FromFixed(f) == (f + (Q \div 2)) \div Q
FMul(a, b) == (a * b) \div Q
FDiv(a, b) == (a * Q) \div b

\* T::powi on a fixed-point base
RECURSIVE FPowi(_, _)
FPowi(b, n) == IF n = 0 THEN Q ELSE FMul(FPowi(b, n - 1), b)

\* The largest r in lo..hi with r * r <= n
RECURSIVE ISqrtIn(_, _, _)
ISqrtIn(n, lo, hi) ==
    IF lo >= hi THEN lo
    ELSE LET mid == (lo + hi + 1) \div 2
         IN  IF mid * mid <= n THEN ISqrtIn(n, mid, hi) ELSE ISqrtIn(n, lo, mid - 1)

\* T::sqrt on a fixed-point number: sqrt(f / Q) * Q = sqrt(10 * f) * 10
FSqrt(f) == IF f <= 0 THEN 0 ELSE ISqrtIn(10 * f, 0, 40000) * 10

Beta1 == 900        \* 0.9
Beta2 == 999        \* 0.999
Epsilon == 1        \* 1e-8: the smallest positive fixed-point number
WeightDecay == 10   \* 0.01

\* AdamW::default, and the same with another weight decay
AdamW_new(learning_rate, weight_decay) ==
    [learning_rate |-> ToFixed(learning_rate), beta1 |-> Beta1, beta2 |-> Beta2,
     epsilon |-> Epsilon, t |-> 1, weight_decay |-> weight_decay,
     first_momentum |-> <<>>, second_momentum |-> <<>>]

AdamW_default(learning_rate) == AdamW_new(learning_rate, WeightDecay)

\* "Apply weight decay": the loop over params from the i-th on; pi is
\* param_indices.  No step of it can panic.
RECURSIVE adam_decay(_, _, _, _, _, _)
adam_decay(o, vs, opt, params, i, pi) ==
    IF i > Len(params) THEN [ops |-> o, vars |-> vs, param_indices |-> pi]
    ELSE LET p == vs[params[i]]
             m == bin_op(o, auto(FromFixed(FMul(opt.learning_rate, opt.weight_decay))),
                         p, "mul")
             r == bin_op(m.ops, p, m.ret, "sub")
         IN  adam_decay(r.ops, [vs EXCEPT ![params[i]] = r.ret], opt, params,
                        i + 1, Append(pi, p.index))

\* The two loops that update the moments: every idx in 0..nderivatives is
\* read from and written to first_momentum, then second_momentum; the first
\* idx past the end of first_momentum panics.
adam_moments(opt, dv) ==
    LET fm == opt.first_momentum
        sm == opt.second_momentum
        n == IF Len(dv) <= Len(fm) THEN Len(dv) ELSE Len(fm)
        fm1 == [i \in 1..Len(fm) |->
                  IF i <= n
                  THEN FMul(opt.beta1, fm[i]) + FMul(Q - opt.beta1, ToFixed(dv[i]))
                  ELSE fm[i]]
        sm1 == [i \in 1..Len(sm) |->
                  IF i <= Len(dv)
                  THEN FMul(opt.beta2, sm[i])
                       + FMul(FMul(Q - opt.beta2, ToFixed(dv[i])), ToFixed(dv[i]))
                  ELSE sm[i]]
    IN  IF Len(dv) > Len(fm)
        THEN [panic |-> TRUE, first_momentum |-> fm1, second_momentum |-> sm]
        ELSE IF Len(dv) > Len(sm)
        THEN [panic |-> TRUE, first_momentum |-> fm1, second_momentum |-> sm]
        ELSE [panic |-> FALSE, first_momentum |-> fm1, second_momentum |-> sm1]

\* first_momentum_hat / second_momentum_hat
adam_hat(m, beta, t, n) == [i \in 1..n |-> FDiv(m[i], Q - FPowi(beta, t))]

\* The last loop over params, from the i-th on: a panic when param_indices
\* has no i-th element or it is no position of the bias-corrected moments;
\* read is the positions of the bias-corrected moments the loop read.
RECURSIVE adam_update(_, _, _, _, _, _, _, _)
adam_update(o, vs, opt, params, i, pi, m1h, m2h) ==
    IF i > Len(params)
    THEN [panic |-> FALSE, ops |-> o, vars |-> vs, read |-> SubSeq(pi, 1, i - 1)]
    ELSE IF i > Len(pi)
    THEN [panic |-> TRUE, ops |-> o, vars |-> vs, read |-> SubSeq(pi, 1, i - 1)]
    ELSE IF pi[i] >= Len(m1h) \/ pi[i] >= Len(m2h)
    THEN [panic |-> TRUE, ops |-> o, vars |-> vs, read |-> SubSeq(pi, 1, i)]
    ELSE LET delta == FDiv(FMul(opt.learning_rate, m1h[pi[i] + 1]),
                           FSqrt(m2h[pi[i] + 1]) + opt.epsilon)
             r == bin_op(o, vs[params[i]], auto(FromFixed(delta)), "sub")
         IN  adam_update(r.ops, [vs EXCEPT ![params[i]] = r.ret], opt, params,
                         i + 1, pi, m1h, m2h)

\* AdamW::step: the tapes, the variables and self when it returns or panics
AdamW_step(o, vs, opt, dv, params) ==
    LET nderivatives == Len(dv)
        dec == IF opt.weight_decay # 0
               THEN adam_decay(o, vs, opt, params, 1, <<>>)
               ELSE [ops |-> o, vars |-> vs, param_indices |-> <<>>]
        fm0 == IF opt.first_momentum = <<>> THEN ZeroVec(nderivatives)
               ELSE opt.first_momentum
        sm0 == IF opt.second_momentum = <<>> THEN ZeroVec(nderivatives)
               ELSE opt.second_momentum
        mom == adam_moments([opt EXCEPT !.first_momentum = fm0,
                                        !.second_momentum = sm0], dv)
        opt1 == [opt EXCEPT !.first_momentum = mom.first_momentum,
                            !.second_momentum = mom.second_momentum]
    IN  IF mom.panic
        THEN [panic |-> TRUE, ops |-> dec.ops, vars |-> dec.vars, opt |-> opt1,
              read |-> <<>>]
        ELSE LET m1h == adam_hat(opt1.first_momentum, opt.beta1, opt.t, nderivatives)
                 m2h == adam_hat(opt1.second_momentum, opt.beta2, opt.t, nderivatives)
                 upd == adam_update(dec.ops, dec.vars, opt, params, 1,
                                    dec.param_indices, m1h, m2h)
             IN  [panic |-> upd.panic, ops |-> upd.ops, vars |-> upd.vars,
                  read |-> upd.read,
                  opt |-> IF upd.panic THEN opt1 ELSE [opt1 EXCEPT !.t = @ + 1]]

---------------------------------------------------------------------------
(* History kept for the properties; none of it is read by the program *)

\* gen: the epoch of the variable's tape when its index was assigned;
\* stale: it was computed from a tracked operand whose tape had been reset
\*        since (and the operand not re-registered);
\* mixed: it was computed from tracked operands of two different tapes.
Hist(g, stale, mixed) == [gen |-> g, stale |-> stale, mixed |-> mixed]
NoHist == Hist(0, FALSE, FALSE)

Declared(s) == vars[s].tape # "unset"
Tracked(v) == v.tape \in Tapes

\* The variable's position was assigned on its tape as it is now
Live(s) == Tracked(vars[s]) => hist[s].gen = epoch[vars[s].tape]

EpochOf(v, e) == IF Tracked(v) THEN e[v.tape] ELSE 0

\* The history of the parameters after an optimizer step that left vs
StepHist(params, vs) ==
    [s \in Slots |->
        IF \E i \in 1..Len(params) : params[i] = s /\ vs[s] # vars[s]
        THEN Hist(EpochOf(vs[s], epoch), hist[s].stale \/ ~Live(s), hist[s].mixed)
        ELSE hist[s]]

NoCall == [call |-> "none"]

InRange(v) == v.value \in -MaxAbs..MaxAbs

\* A call: the program is running and has calls left
Call == ~panicked /\ calls > 0 /\ calls' = calls - 1 /\ UNCHANGED prog

Api == [pc |-> "api"]

---------------------------------------------------------------------------
(* The program: any sequence of API calls on the variables and tapes *)

Init ==
    /\ ops = [tp \in Tapes |-> Tape_new]
    /\ epoch = [tp \in Tapes |-> 0]
    /\ vars = [s \in Slots |-> NoValue]
    /\ hist = [s \in Slots |-> NoHist]
    /\ derivs = <<>>
    /\ last = NoCall
    /\ panicked = FALSE
    /\ sgd \in {SimpleGradientDescent_new(lr) : lr \in LearningRates}
    /\ adam \in {AdamW_default(lr) : lr \in LearningRates}
    /\ calls = MaxCalls
    /\ prog = Api

\* let s = Reverse::reversible(Primal[s], tape.clone())
Reversible(s, tp) ==
    /\ Call /\ ~Declared(s)
    /\ LET r == reversible(ops, Primal[s], tp)
       IN  /\ ops' = r.ops
           /\ vars' = [vars EXCEPT ![s] = r.ret]
           /\ hist' = [hist EXCEPT ![s] = Hist(epoch[tp], FALSE, FALSE)]
           /\ last' = [call |-> "reversible", ret |-> r.ret]
    /\ UNCHANGED <<epoch, derivs, panicked, sgd, adam>>

\* let s = Reverse::auto(Primal[s])
Auto(s) ==
    /\ Call /\ ~Declared(s)
    /\ vars' = [vars EXCEPT ![s] = auto(Primal[s])]
    /\ hist' = [hist EXCEPT ![s] = NoHist]
    /\ last' = [call |-> "auto", ret |-> auto(Primal[s])]
    /\ UNCHANGED <<ops, epoch, derivs, panicked, sgd, adam>>

\* tape.reset()
TapeReset(tp) ==
    /\ Call
    /\ ops' = [ops EXCEPT ![tp] = Tape_reset(@)]
    /\ epoch' = [epoch EXCEPT ![tp] = @ + 1]
    /\ last' = [call |-> "tape_reset", tape |-> tp]
    /\ UNCHANGED <<vars, hist, derivs, panicked, sgd, adam>>

\* s.reset()
ValueReset(s) ==
    /\ Call /\ Declared(s)
    /\ LET r == reset(ops, vars[s])
       IN  /\ ops' = r.ops
           /\ vars' = [vars EXCEPT ![s] = r.ret]
           /\ hist' = [hist EXCEPT ![s] = Hist(EpochOf(r.ret, epoch), FALSE, FALSE)]
           /\ last' = [call |-> "reset", self |-> vars[s], ret |-> r.ret]
    /\ UNCHANGED <<epoch, derivs, panicked, sgd, adam>>

\* let z = a.unary_op(...)
UnaryOp(k, a) ==
    /\ Call /\ Declared(a)
    /\ LET r == unary_op(ops, vars[a], k)
       IN  /\ InRange(r.ret)
           /\ ops' = r.ops
           /\ vars' = [vars EXCEPT !["z"] = r.ret]
           /\ hist' = [hist EXCEPT !["z"] =
                          Hist(EpochOf(r.ret, epoch),
                               hist[a].stale \/ ~Live(a), hist[a].mixed)]
           /\ last' = [call |-> "unary_op", kind |-> k, self |-> vars[a],
                       ret |-> r.ret]
    /\ UNCHANGED <<epoch, derivs, panicked, sgd, adam>>

\* let z = a.bin_op(&b, ...)
BinOp(k, a, b) ==
    /\ Call /\ Declared(a) /\ Declared(b)
    /\ LET r == bin_op(ops, vars[a], vars[b], k)
       IN  /\ InRange(r.ret)
           /\ ops' = r.ops
           /\ vars' = [vars EXCEPT !["z"] = r.ret]
           /\ hist' = [hist EXCEPT !["z"] =
                          Hist(EpochOf(r.ret, epoch),
                               hist[a].stale \/ hist[b].stale \/ ~Live(a) \/ ~Live(b),
                               \/ hist[a].mixed \/ hist[b].mixed
                               \/ /\ Tracked(vars[a]) /\ Tracked(vars[b])
                                  /\ vars[a].tape # vars[b].tape)]
           /\ last' = [call |-> "bin_op", kind |-> k, args |-> <<a, b>>,
                       self |-> vars[a], other |-> vars[b], ret |-> r.ret,
                       tapes |-> ops]
    /\ UNCHANGED <<epoch, derivs, panicked, sgd, adam>>

\* let derivs = s.derivatives()
Backward(s) ==
    /\ Call /\ Declared(s)
    /\ LET r == derivatives(ops, vars[s])
       IN  /\ panicked' = r.panic
           /\ derivs' = IF r.panic THEN derivs ELSE r.val
           /\ last' = [call |-> "derivatives", self |-> vars[s], of |-> s]
    /\ UNCHANGED <<ops, epoch, vars, hist, sgd, adam>>

\* derivs[s]
Lookup(s) ==
    /\ Call /\ Declared(s)
    /\ LET r == index(derivs, vars[s])
       IN  /\ panicked' = r.panic
           /\ last' = [call |-> "index", self |-> vars[s], ret |-> r.val]
    /\ UNCHANGED <<ops, epoch, vars, hist, derivs, sgd, adam>>

\* The sequences of distinct declared variables of S: &mut [&mut Reverse<T>]
ParamLists(S) ==
    LET D == {s \in S : Declared(s)}
    IN  {<<>>} \cup {<<a>> : a \in D}
               \cup {p \in {<<a, b>> : a \in D, b \in D} : p[1] # p[2]}

\* sgd.step(&derivs, &mut [...params])
SgdStep(params) ==
    /\ Call
    /\ LET r == sgd_step(ops, vars, sgd, derivs, params, 1)
       IN  /\ \A i \in 1..Len(params) : InRange(r.vars[params[i]])
           /\ panicked' = r.panic
           /\ ops' = r.ops
           /\ vars' = r.vars
           /\ hist' = StepHist(params, r.vars)
           /\ last' = [call |-> "sgd_step", params |-> params,
                       before |-> [i \in 1..Len(params) |-> vars[params[i]]],
                       tapes |-> ops, read |-> r.read, moments |-> 0]
    /\ UNCHANGED <<epoch, derivs, sgd, adam>>

\* adam.step(&derivs, &mut [...params])
AdamStep(params) ==
    /\ Call
    /\ LET r == AdamW_step(ops, vars, adam, derivs, params)
       IN  /\ \A i \in 1..Len(params) : InRange(r.vars[params[i]])
           /\ panicked' = r.panic
           /\ ops' = r.ops
           /\ vars' = r.vars
           /\ adam' = r.opt
           /\ hist' = StepHist(params, r.vars)
           /\ last' = [call |-> "adam_step", params |-> params,
                       before |-> [i \in 1..Len(params) |-> vars[params[i]]],
                       tapes |-> ops, read |-> r.read,
                       moments |-> Len(adam.first_momentum)]
    /\ UNCHANGED <<epoch, derivs, sgd>>

Next ==
    \/ \E s \in Inputs, tp \in Tapes : Reversible(s, tp)
    \/ \E s \in Inputs : Auto(s)
    \/ \E tp \in Tapes : TapeReset(tp)
    \/ \E s \in Slots : ValueReset(s)
    \/ \E k \in UnaryKinds, a \in Slots : UnaryOp(k, a)
    \/ \E k \in BinKinds, a \in Slots, b \in Slots : BinOp(k, a, b)
    \/ \E s \in Slots : Backward(s)
    \/ \E s \in Slots : Lookup(s)
    \/ \E params \in ParamLists(Slots) : SgdStep(params)

Spec == Init /\ [][Next]_vars_all

---------------------------------------------------------------------------
(* The program of an optimization: one tape, the parameters x and y, the   *)
(* expressions x * x and x * y, and optimizer steps in any order           *)

WeightDecays == {WeightDecay, 0}

InitOpt ==
    /\ ops = [tp \in Tapes |-> Tape_new]
    /\ epoch = [tp \in Tapes |-> 0]
    /\ vars = [s \in Slots |-> NoValue]
    /\ hist = [s \in Slots |-> NoHist]
    /\ derivs = <<>>
    /\ last = NoCall
    /\ panicked = FALSE
    /\ sgd \in {SimpleGradientDescent_new(lr) : lr \in LearningRates}
    /\ adam \in {AdamW_new(lr, wd) : lr \in LearningRates, wd \in WeightDecays}
    /\ calls = MaxOptCalls
    /\ prog = Api

NextOpt ==
    \/ \E s \in Inputs : Reversible(s, "t1")
    \/ Auto("y")
    \/ TapeReset("t1")
    \/ \E s \in Inputs : ValueReset(s)
    \/ \E b \in Inputs : BinOp("mul", "x", b)
    \/ \E s \in {"x", "z"} : Backward(s)
    \/ \E params \in ParamLists(Inputs) : SgdStep(params)
    \/ \E params \in ParamLists(Inputs) : AdamStep(params)

SpecOpt == InitOpt /\ [][NextOpt]_vars_all

---------------------------------------------------------------------------
(* Expressions over the variables x and y and constants *)

Var(name) == [op |-> "var", name |-> name]
Const(v) == [op |-> "const", v |-> v]
Un(k, a) == [op |-> k, a |-> a]
Bin(k, a, b) == [op |-> k, a |-> a, b |-> b]

\* (1 - x)^2 + c * (y - x^2)^2, the expression of the benchmark
Rosenbrock(c) ==
    Bin("add", Un("powi2", Bin("sub", Const(1), Var("x"))),
               Bin("mul", Const(c),
                   Un("powi2", Bin("sub", Var("y"), Un("powi2", Var("x"))))))

SimpleExprs ==
    { Var("x"),
      Bin("mul", Var("x"), Var("x")),
      Bin("add", Var("x"), Var("y")),
      Bin("mul", Var("x"), Var("y")),
      Bin("add", Var("x"), Const(2)),
      Un("powi2", Bin("sub", Const(1), Var("x"))),
      Bin("sub", Bin("mul", Var("x"), Var("y")), Un("neg", Var("x"))) }

\* Evaluating an expression with the operators of Reverse, the left operand
\* before the right one: the tapes afterwards and the value
RECURSIVE Build(_, _, _)
Build(o, vs, e) ==
    CASE e.op = "var" -> [ops |-> o, ret |-> vs[e.name]]
      [] e.op = "const" -> [ops |-> o, ret |-> auto(e.v)]
      [] e.op \in UnaryKinds ->
            LET a == Build(o, vs, e.a)
            IN  unary_op(a.ops, a.ret, e.op)
      [] e.op \in BinKinds ->
            LET a == Build(o, vs, e.a)
                b == Build(a.ops, vs, e.b)
            IN  bin_op(b.ops, a.ret, b.ret, e.op)

---------------------------------------------------------------------------
(* The optimization loop of the benchmark, with either optimizer and an    *)
(* expression; prog.skip: the program leaves out tape.reset()              *)

LoopPrograms ==
    [expr : SimpleExprs, opt : {"sgd", "adamw"}, skip : BOOLEAN]
    \cup [expr : {Rosenbrock(2)}, opt : {"adamw"}, skip : BOOLEAN]

InitLoop ==
    /\ ops = [tp \in Tapes |-> Tape_new]
    /\ epoch = [tp \in Tapes |-> 0]
    /\ vars = [s \in Slots |-> NoValue]
    /\ hist = [s \in Slots |-> NoHist]
    /\ derivs = <<>>
    /\ last = NoCall
    /\ panicked = FALSE
    /\ sgd \in {SimpleGradientDescent_new(lr) : lr \in LearningRates}
    /\ adam \in {AdamW_default(lr) : lr \in LearningRates}
    /\ calls = 0
    /\ \E lp \in LoopPrograms :
          prog = [pc |-> "decl_x", expr |-> lp.expr, opt |-> lp.opt, skip |-> lp.skip,
                  iter |-> 1, resets |-> <<>>, backward |-> <<>>, step |-> <<>>]

At(pc) == ~panicked /\ prog.pc = pc
Goto(pc) == [prog EXCEPT !.pc = pc]
Nodes == Len(ops["t1"])

\* let mut s = Reverse::reversible(Primal[s], tape.clone())
Declare(s, pc, next) ==
    /\ At(pc)
    /\ LET r == reversible(ops, Primal[s], "t1")
       IN  /\ ops' = r.ops
           /\ vars' = [vars EXCEPT ![s] = r.ret]
    /\ prog' = Goto(next)
    /\ UNCHANGED <<epoch, hist, derivs, last, panicked, sgd, adam, calls>>

LoopDeclareX == Declare("x", "decl_x", "decl_y")
LoopDeclareY == Declare("y", "decl_y", "tape_reset")

\* tape.reset()
LoopTapeReset ==
    /\ At("tape_reset") /\ ~prog.skip
    /\ ops' = [ops EXCEPT !["t1"] = Tape_reset(@)]
    /\ epoch' = [epoch EXCEPT !["t1"] = @ + 1]
    /\ prog' = Goto("reset_x")
    /\ UNCHANGED <<vars, hist, derivs, last, panicked, sgd, adam, calls>>

\* the loop without tape.reset()
LoopNoTapeReset ==
    /\ At("tape_reset") /\ prog.skip
    /\ prog' = Goto("reset_x")
    /\ UNCHANGED <<ops, epoch, vars, hist, derivs, last, panicked, sgd, adam, calls>>

\* x.reset()
LoopResetX ==
    /\ At("reset_x")
    /\ LET r == reset(ops, vars["x"])
       IN  /\ ops' = r.ops
           /\ vars' = [vars EXCEPT !["x"] = r.ret]
    /\ prog' = Goto("reset_y")
    /\ UNCHANGED <<epoch, hist, derivs, last, panicked, sgd, adam, calls>>

\* y.reset(); the node count after the resets is noted
LoopResetY ==
    /\ At("reset_y")
    /\ LET r == reset(ops, vars["y"])
       IN  /\ ops' = r.ops
           /\ vars' = [vars EXCEPT !["y"] = r.ret]
           /\ prog' = [prog EXCEPT !.pc = "build",
                                   !.resets = Append(@, Len(r.ops["t1"]))]
    /\ UNCHANGED <<epoch, hist, derivs, last, panicked, sgd, adam, calls>>

\* let z = <the expression>
LoopBuild ==
    /\ At("build")
    /\ LET r == Build(ops, vars, prog.expr)
       IN  /\ ops' = r.ops
           /\ vars' = [vars EXCEPT !["z"] = r.ret]
    /\ prog' = Goto("backward")
    /\ UNCHANGED <<epoch, hist, derivs, last, panicked, sgd, adam, calls>>

\* let derivs = z.derivatives(); the node count at backward() is noted
LoopBackward ==
    /\ At("backward")
    /\ LET r == derivatives(ops, vars["z"])
       IN  /\ panicked' = r.panic
           /\ derivs' = IF r.panic THEN derivs ELSE r.val
    /\ prog' = [prog EXCEPT !.pc = "step", !.backward = Append(@, Nodes)]
    /\ UNCHANGED <<ops, epoch, vars, hist, last, sgd, adam, calls>>

\* Where the loop goes after the step, the node count after it noted
AfterStep(o) ==
    [prog EXCEPT !.pc = IF prog.iter < MaxIters THEN "tape_reset" ELSE "done",
                 !.iter = IF prog.iter < MaxIters THEN @ + 1 ELSE @,
                 !.step = Append(@, Len(o["t1"]))]

\* sgd.step(&derivs, &mut [&mut x, &mut y]) with SimpleGradientDescent
LoopSgdStep ==
    /\ At("step") /\ prog.opt = "sgd"
    /\ LET r == sgd_step(ops, vars, sgd, derivs, <<"x", "y">>, 1)
       IN  /\ panicked' = r.panic
           /\ ops' = r.ops
           /\ vars' = r.vars
           /\ prog' = IF r.panic THEN prog ELSE AfterStep(r.ops)
    /\ UNCHANGED <<epoch, hist, derivs, last, sgd, adam, calls>>

\* sgd.step(&derivs, &mut [&mut x, &mut y]) with AdamW
LoopAdamStep ==
    /\ At("step") /\ prog.opt = "adamw"
    /\ LET r == AdamW_step(ops, vars, adam, derivs, <<"x", "y">>)
       IN  /\ panicked' = r.panic
           /\ ops' = r.ops
           /\ vars' = r.vars
           /\ adam' = r.opt
           /\ prog' = IF r.panic THEN prog ELSE AfterStep(r.ops)
    /\ UNCHANGED <<epoch, hist, derivs, last, sgd, calls>>

NextLoop ==
    \/ LoopDeclareX \/ LoopDeclareY
    \/ LoopTapeReset \/ LoopNoTapeReset
    \/ LoopResetX \/ LoopResetY
    \/ LoopBuild \/ LoopBackward
    \/ LoopSgdStep \/ LoopAdamStep

SpecLoop == InitLoop /\ [][NextLoop]_vars_all

---------------------------------------------------------------------------
(* Round trip: build and differentiate an expression, reset the tape and   *)
(* the variables, build and differentiate it again                         *)

RoundTripExprs == SimpleExprs \cup {Rosenbrock(2)}

InitRT ==
    /\ ops = [tp \in Tapes |-> Tape_new]
    /\ epoch = [tp \in Tapes |-> 0]
    /\ vars = [s \in Slots |-> NoValue]
    /\ hist = [s \in Slots |-> NoHist]
    /\ derivs = <<>>
    /\ last = NoCall
    /\ panicked = FALSE
    /\ sgd \in {SimpleGradientDescent_new(lr) : lr \in LearningRates}
    /\ adam \in {AdamW_default(lr) : lr \in LearningRates}
    /\ calls = 0
    /\ \E e \in RoundTripExprs :
          prog = [pc |-> "rt_decl_x", expr |-> e, round |-> 1, first |-> "none",
                  before |-> <<>>, after |-> <<>>]

\* The derivative of every tracked variable, looked up by its handle
Lookups(dv, vs) ==
    [s \in {i \in Inputs : Tracked(vs[i])} |-> index(dv, vs[s])]

\* let x = Reverse::reversible(Primal["x"], tape.clone())
RTDeclareX ==
    /\ At("rt_decl_x")
    /\ LET r == reversible(ops, Primal["x"], "t1")
       IN  /\ ops' = r.ops
           /\ vars' = [vars EXCEPT !["x"] = r.ret]
    /\ prog' = Goto("rt_decl_y")
    /\ UNCHANGED <<epoch, hist, derivs, last, panicked, sgd, adam, calls>>

\* let y = Reverse::reversible(Primal["y"], tape.clone())
RTDeclareY ==
    /\ At("rt_decl_y")
    /\ LET r == reversible(ops, Primal["y"], "t1")
       IN  /\ ops' = r.ops
           /\ vars' = [vars EXCEPT !["y"] = r.ret]
    /\ prog' = Goto("rt_build")
    /\ UNCHANGED <<epoch, hist, derivs, last, panicked, sgd, adam, calls>>

\* let y = Reverse::auto(Primal["y"])
RTConstY ==
    /\ At("rt_decl_y")
    /\ vars' = [vars EXCEPT !["y"] = auto(Primal["y"])]
    /\ prog' = Goto("rt_build")
    /\ UNCHANGED <<ops, epoch, hist, derivs, last, panicked, sgd, adam, calls>>

\* let z = <the expression>
RTBuild ==
    /\ At("rt_build")
    /\ LET r == Build(ops, vars, prog.expr)
       IN  /\ ops' = r.ops
           /\ vars' = [vars EXCEPT !["z"] = r.ret]
    /\ prog' = Goto("rt_backward")
    /\ UNCHANGED <<epoch, hist, derivs, last, panicked, sgd, adam, calls>>

\* let derivs = z.derivatives(), then derivs[x] and derivs[y]
RTBackward ==
    /\ At("rt_backward")
    /\ LET r == derivatives(ops, vars["z"])
           dv == IF r.panic THEN derivs ELSE r.val
       IN  /\ panicked' = r.panic
           /\ derivs' = dv
           /\ prog' = IF r.panic THEN prog
                      ELSE IF prog.round = 1
                           THEN [prog EXCEPT !.pc = "rt_tape_reset",
                                             !.before = Lookups(dv, vars)]
                           ELSE [prog EXCEPT !.pc = "rt_done",
                                             !.after = Lookups(dv, vars)]
    /\ UNCHANGED <<ops, epoch, vars, hist, last, sgd, adam, calls>>

\* tape.reset()
RTTapeReset ==
    /\ At("rt_tape_reset")
    /\ ops' = [ops EXCEPT !["t1"] = Tape_reset(@)]
    /\ epoch' = [epoch EXCEPT !["t1"] = @ + 1]
    /\ prog' = [prog EXCEPT !.pc = "rt_reset_first", !.round = 2]
    /\ UNCHANGED <<vars, hist, derivs, last, panicked, sgd, adam, calls>>

\* s.reset() on the variable the program resets first
RTResetFirst(s) ==
    /\ At("rt_reset_first")
    /\ LET r == reset(ops, vars[s])
       IN  /\ ops' = r.ops
           /\ vars' = [vars EXCEPT ![s] = r.ret]
    /\ prog' = [prog EXCEPT !.pc = "rt_reset_second", !.first = s]
    /\ UNCHANGED <<epoch, hist, derivs, last, panicked, sgd, adam, calls>>

\* s.reset() on the other variable
RTResetSecond(s) ==
    /\ At("rt_reset_second") /\ s # prog.first
    /\ LET r == reset(ops, vars[s])
       IN  /\ ops' = r.ops
           /\ vars' = [vars EXCEPT ![s] = r.ret]
    /\ prog' = Goto("rt_build")
    /\ UNCHANGED <<epoch, hist, derivs, last, panicked, sgd, adam, calls>>

NextRT ==
    \/ RTDeclareX \/ RTDeclareY \/ RTConstY
    \/ RTBuild \/ RTBackward \/ RTTapeReset
    \/ \E s \in Inputs : RTResetFirst(s)
    \/ \E s \in Inputs : RTResetSecond(s)

SpecRT == InitRT /\ [][NextRT]_vars_all

---------------------------------------------------------------------------
(* Properties of Reverse::derivatives *)

\* Every node is a leaf (both parents are the node itself, both local
\* derivatives zero) or has both parents at strictly smaller positions
WellFormed(tp) ==
    \A i \in 0..Len(tp) - 1 :
        LET n == tp[i + 1]
        IN  /\ n.left <= i /\ n.right <= i
            /\ (n.left = i \/ n.right = i) =>
                  n.left = i /\ n.right = i /\ n.dleft = 0 /\ n.dright = 0

\* The product of the local derivatives along the edges from node i to q
EdgesTo(tp, i, q) ==
    (IF tp[i + 1].left = q THEN tp[i + 1].dleft ELSE 0)
    + (IF tp[i + 1].right = q THEN tp[i + 1].dright ELSE 0)

\* The sum, over all paths of recorded edges from p down to q, of the
\* product of the local derivatives along the path; the paths are grouped
\* by their last edge, from a node i in q+1..p to q (n is the largest i
\* still to be added).
RECURSIVE PathSum(_, _, _, _)
PathSum(tp, p, q, n) ==
    IF q > p THEN 0
    ELSE IF q = p THEN 1
    ELSE IF n <= q THEN 0
    ELSE PathSum(tp, p, n, p) * EdgesTo(tp, n, q) + PathSum(tp, p, q, n - 1)

TotalDerivative(tp, p, q) == PathSum(tp, p, q, p)

\* C1: on a well-formed tape, backward() on the tracked value at position p
\* returns (it does not panic) a vector with one slot per node of the tape,
\* 1 at p's own slot, and at every slot q the total derivative of p with
\* respect to q: the sum over all recorded paths from p down to q of the
\* product of the local derivatives.
C1_BackwardIsTotalDerivative ==
    (/\ last.call = "derivatives"
     /\ Tracked(last.self)
     /\ last.self.index < Len(ops[last.self.tape])
     /\ WellFormed(ops[last.self.tape]))
    => LET tp == ops[last.self.tape]
           p == last.self.index
       IN  /\ ~panicked
           /\ Len(derivs) = Len(tp)
           /\ derivs[p + 1] = 1
           /\ \A q \in 0..Len(tp) - 1 : derivs[q + 1] = TotalDerivative(tp, p, q)

\* f(x) = x * x at x = 3, both operands the same leaf: the derivative at x is 6
C1_Witness ==
    /\ last.call = "derivatives" /\ ~panicked
    /\ vars["x"] = Reverse(3, "t1", 0)
    /\ last.self = Reverse(9, "t1", 1)
    /\ ops["t1"] = <<Op(0, 0, 0, 0), Op(0, 0, 3, 3)>>
    /\ derivs = <<6, 1>>

---------------------------------------------------------------------------
(* Properties of the tape and of the operations that record on it *)

\* C2: in every reachable state the node positions of every tape are the
\* dense integers 0..len in creation order (a tape is the sequence of its
\* nodes, and every tracked value an operation returns is at the last
\* position of its tape), and every node's left and right parent positions
\* are <= the node's own position.
C2_ParentsPrecedeChildren ==
    /\ \A tp \in Tapes : \A i \in 0..Len(ops[tp]) - 1 :
          ops[tp][i + 1].left <= i /\ ops[tp][i + 1].right <= i
    /\ (last.call \in {"reversible", "reset", "unary_op", "bin_op"}
        /\ Tracked(last.ret)) => last.ret.index = Len(ops[last.ret.tape]) - 1

\* Both operands of the last bin_op were tracked, on different tapes
CrossTape ==
    /\ last.call = "bin_op"
    /\ Tracked(last.self) /\ Tracked(last.other)
    /\ last.self.tape # last.other.tape

\* C5: a binary operation whose operands are tracked on different tapes
\* panics, and appends no node to either tape.
C5_CrossTapePanics ==
    CrossTape => panicked /\ ops = last.tapes

\* C6: backward() on the result of an expression that used, on its own
\* tape, a tracked value created before a tape.reset() and not re-registered
\* since, panics: it never returns a Derivative Vector.
C6_StaleBackwardPanics ==
    (/\ last.call = "derivatives"
     /\ hist[last.of].stale /\ ~hist[last.of].mixed)
    => panicked

\* What bin_op records for a tracked result: one node appended to tape tp
Appended(tp, node) == ops = [last.tapes EXCEPT ![tp] = Append(@, node)]

\* C8: the four cases of a binary operation by the trackedness of self and
\* other: neither tracked, the result is untracked and the tapes unchanged;
\* one tracked, the result is tracked on that operand's tape, with one
\* unary node appended, whose parent is that operand's position and whose
\* local derivative is the one of that operand's side; both tracked, the
\* result is tracked on self's tape, with one node appended, of parents
\* (self.index, other.index) and local derivatives (left, right).  A tracked
\* result is at the tape's length before the operation, and the operands
\* are left as they were.
C8_BinOpCases ==
    last.call = "bin_op" =>
        LET self == last.self
            other == last.other
            ret == last.ret
            dl == bin_deriv_left(last.kind, self.value, other.value)
            dr == bin_deriv_right(last.kind, self.value, other.value)
        IN  /\ ~panicked
            /\ ret.value = bin_eval(last.kind, self.value, other.value)
            /\ (~Tracked(self) /\ ~Tracked(other)) =>
                  ret.tape = NoTape /\ ops = last.tapes
            /\ (Tracked(self) /\ ~Tracked(other)) =>
                  /\ ret.tape = self.tape
                  /\ Appended(self.tape, Op(self.index, self.index, dl, 0))
            /\ (~Tracked(self) /\ Tracked(other)) =>
                  /\ ret.tape = other.tape
                  /\ Appended(other.tape, Op(other.index, other.index, dr, 0))
            /\ (Tracked(self) /\ Tracked(other)) =>
                  /\ ret.tape = self.tape
                  /\ Appended(self.tape, Op(self.index, other.index, dl, dr))
            /\ Tracked(ret) => ret.index = Len(last.tapes[ret.tape])
            /\ vars["z"] = ret
            /\ last.args[1] # "z" => vars[last.args[1]] = self
            /\ last.args[2] # "z" => vars[last.args[2]] = other

\* constant * tracked: 2 * x at x = 3 records the unary node (x, d = 2)
C8_Witness ==
    /\ last.call = "bin_op" /\ last.kind = "mul"
    /\ last.self = auto(2)
    /\ last.other = Reverse(3, "t1", 0)
    /\ last.ret = Reverse(6, "t1", 1)
    /\ ops["t1"] = <<Op(0, 0, 0, 0), Op(0, 0, 2, 0)>>

\* C10: a lookup in a Derivative Vector by an untracked value never returns
\* the derivative stored for a tracked position, and a lookup at a position
\* beyond the vector's length panics.
C10_LookupOnlyByPosition ==
    last.call = "index" =>
        /\ (~Tracked(last.self) /\ ~panicked) =>
              \A k \in 1..Len(derivs) : last.ret # derivs[k]
        /\ last.self.index >= Len(derivs) => panicked

---------------------------------------------------------------------------
(* Properties of the optimizers *)

Step == last.call \in {"sgd_step", "adam_step"}

\* How many of the parameters of the last step were tracked on tape tp
RECURSIVE TrackedOn(_, _)
TrackedOn(tp, i) ==
    IF i = 0 THEN 0
    ELSE TrackedOn(tp, i - 1) + (IF last.before[i].tape = tp THEN 1 ELSE 0)

\* The nodes a returned step records for one tracked parameter: the
\* subtraction of gradient descent; for AdamW the product and the
\* subtraction of the weight decay, and the subtraction of the update.
NodesPerParam ==
    IF last.call = "adam_step" /\ adam.weight_decay # 0 THEN 3 ELSE 1

\* C4, as claimed: after a step returns, every parameter is untracked, and
\* the tapes are as they were before the step.
C4_StepLeavesConstants ==
    (Step /\ ~panicked) =>
        /\ \A i \in 1..Len(last.params) : ~Tracked(vars[last.params[i]])
        /\ ops = last.tapes

\* C4, amended: after a step returns, every parameter that was tracked is
\* tracked on the same tape, at a position the step appended; a parameter
\* that was untracked is untracked; and every tape has grown by one node
\* per parameter tracked on it (gradient descent) or three (AdamW).
C4_StepKeepsParamsTracked ==
    (Step /\ ~panicked) =>
        /\ \A i \in 1..Len(last.params) :
              LET b == last.before[i]
                  v == vars[last.params[i]]
              IN  /\ v.tape = b.tape
                  /\ Tracked(b) =>
                        /\ v.index >= Len(last.tapes[b.tape])
                        /\ v.index < Len(ops[b.tape])
        /\ \A tp \in Tapes :
              Len(ops[tp]) = Len(last.tapes[tp])
                             + NodesPerParam * TrackedOn(tp, Len(last.params))

\* AdamW with weight decay returned from a step over two tracked parameters
C4_Witness ==
    /\ last.call = "adam_step" /\ ~panicked
    /\ Len(last.params) = 2
    /\ Tracked(last.before[1]) /\ Tracked(last.before[2])
    /\ Len(ops["t1"]) = Len(last.tapes["t1"]) + 6

\* C7: at every AdamW step the moment arrays have one slot per position of
\* the derivative vector of that step, whatever the lengths of the vectors
\* of earlier steps, so that no position's update is out of range.
C7_MomentsMatchDerivatives ==
    last.call = "adam_step" =>
        /\ Len(adam.first_momentum) = Len(derivs)
        /\ Len(adam.second_momentum) = Len(derivs)

\* The last call was a step over one or more tracked parameters, each at a
\* position of its tape and of the derivative vector, and, for AdamW, with
\* moment arrays that were empty or as long as the derivative vector
StepOverTracked ==
    /\ Step
    /\ Len(last.params) >= 1
    /\ \A i \in 1..Len(last.params) :
          LET b == last.before[i]
          IN  /\ Tracked(b)
              /\ b.index < Len(last.tapes[b.tape])
              /\ b.index < Len(derivs)
    /\ last.call = "adam_step" => last.moments \in {0, Len(derivs)}

\* The positions the step read are those the parameters held at the call
ReadsCallPositions ==
    last.read = [i \in 1..Len(last.params) |-> last.before[i].index]

\* C11: a step over one or more tracked parameters returns, and the update
\* of each parameter read the derivative (gradient descent) or the
\* bias-corrected moments (AdamW) at the position the parameter held when
\* the step was called, not at a position the step created; for AdamW both
\* with a nonzero and with a zero weight decay.
C11_StepReadsCallPositions ==
    StepOverTracked => ~panicked /\ ReadsCallPositions

\* The same for gradient descent and for AdamW with a nonzero weight decay
C11_ReadsCallPositionsWithDecay ==
    (StepOverTracked /\ (last.call = "adam_step" => adam.weight_decay # 0))
    => ~panicked /\ ReadsCallPositions

\* AdamW with weight decay stepped over x and y, at positions 0 and 1, and
\* left them at positions the step created
C11_WithDecayWitness ==
    /\ StepOverTracked /\ last.call = "adam_step" /\ ~panicked
    /\ adam.weight_decay # 0
    /\ last.read = <<0, 1>>
    /\ vars["x"].index > 1 /\ vars["y"].index > 1

---------------------------------------------------------------------------
(* Properties of the optimization loop *)

Same(seq) == \A i \in 1..Len(seq), j \in 1..Len(seq) : seq[i] = seq[j]
Increasing(seq) == \A i \in 1..Len(seq), j \in 1..Len(seq) : i < j => seq[i] < seq[j]

LoopRuns == prog.pc # "api" /\ "skip" \in DOMAIN prog

\* C3: with tape.reset() and the parameters' reset() at the start of every
\* iteration, the tape's node count after the resets, at backward() and
\* after the step is the same in every iteration; without tape.reset() each
\* of them strictly increases from one iteration to the next.
C3_NodeCountPerIteration ==
    LoopRuns =>
        /\ ~prog.skip =>
              Same(prog.resets) /\ Same(prog.backward) /\ Same(prog.step)
        /\ prog.skip =>
              Increasing(prog.resets) /\ Increasing(prog.backward)
              /\ Increasing(prog.step)

\* The loop of the benchmark has run all its iterations with AdamW
C3_Witness ==
    /\ LoopRuns /\ prog.pc = "done" /\ ~prog.skip
    /\ prog.opt = "adamw" /\ prog.expr = Rosenbrock(2)
    /\ prog.resets = [i \in 1..MaxIters |-> 2]
    /\ prog.backward = [i \in 1..MaxIters |-> 9]
    /\ prog.step = [i \in 1..MaxIters |-> 15]

---------------------------------------------------------------------------
(* Properties of the round trip *)

RoundTripRuns == prog.pc # "api" /\ "round" \in DOMAIN prog

\* C9: after tape.reset() and reset() on the tracked variables in either
\* order, building the same expression again on the same primal values and
\* calling derivatives() gives, for every tracked variable looked up by its
\* handle, the derivative the first computation gave, and nothing panics.
C9_RoundTrip ==
    RoundTripRuns =>
        /\ ~panicked
        /\ prog.pc = "rt_done" =>
              /\ DOMAIN prog.after = DOMAIN prog.before
              /\ \A s \in DOMAIN prog.before :
                    /\ ~prog.before[s].panic
                    /\ prog.after[s] = prog.before[s]

\* The round trip of the Rosenbrock expression with y reset before x, which
\* exchanges the positions of the two variables
C9_Witness ==
    /\ RoundTripRuns /\ prog.pc = "rt_done" /\ prog.first = "y"
    /\ prog.expr = Rosenbrock(2)
    /\ vars["x"].index = 1 /\ vars["y"].index = 0
    /\ DOMAIN prog.after = {"x", "y"}
    /\ prog.after["x"].val # prog.after["y"].val
    /\ prog.after["x"].val # 0

===========================================================================
